---- MODULE Spec2Model ----
(***************************************************************************)
(* Finite-field elements (src/src/finite_field.rs) and Weierstrass curve   *)
(* points (src/src/point.rs).                                              *)
(*                                                                         *)
(* FieldElement { num: i32, prime: u32 } computes on fixed-width integers. *)
(* An i32 is modelled by the integer it denotes, in I32_MIN..I32_MAX.  A   *)
(* u32 is modelled by the record [hi, lo] denoting hi * 2^31 + lo, since   *)
(* the values from 2^31 on are not integers of the model checker.  Every   *)
(* i32 operation is computed as the machine computes it: the wrapped       *)
(* result together with the fact that the exact result did not fit.  A     *)
(* build with overflow checks (debug) panics on that fact; a build without *)
(* (release) continues with the wrapped value.                             *)
(*                                                                         *)
(* Point<A, B> computes on BigInt, which is unbounded: its operations are  *)
(* the exact integer operations, `/` rounding toward zero.                 *)
(***************************************************************************)
EXTENDS Integers, Sequences, FiniteSets, TLC

\* the field side: the build, the receiver, the argument, the exponent, the
\* operation called last, what it yielded, whether the receiver was itself
\* returned by an operation, and the number of calls made
\* the curve side: the coefficients <<A, B>>, the operands of the last add,
\* the arguments of the last new_point, the operation called last, its outcome
VARIABLES debug, self, elem, exp, op, res, made, calls,
          curve, lhs, rhs, argx, argy, pop, pres

fvars == <<debug, self, elem, exp, op, res, made, calls>>
pvars == <<curve, lhs, rhs, argx, argy, pop, pres>>
vars == <<debug, self, elem, exp, op, res, made, calls,
          curve, lhs, rhs, argx, argy, pop, pres>>

(***************************************************************************)
(* Bounds of the model.                                                    *)
(***************************************************************************)
\* residues 0..MaxNum are operands of every field
MaxNum == 2
\* raw constructions new(num, prime) also take num in -MaxNeg..-1
MaxNeg == 1
\* exponents -MaxExp..MaxExp are passed to pow
MaxExp == 2
\* new_point is called with coordinates in -MaxCoord..MaxCoord
MaxCoord == 5
\* a sum is used as an operand again while its coordinates are within MaxFeed
MaxFeed == 80
\* a run makes at most MaxCalls field operations, one on the result of another
MaxCalls == 2

(***************************************************************************)
(* i32 and u32.                                                            *)
(***************************************************************************)
I32_MAX == 2147483647
I32_MIN == -I32_MAX - 1

Abs(a) == IF a < 0 THEN -a ELSE a

\* a u32: hi * 2^31 + lo
U32(h, l) == [hi |-> h, lo |-> l]

\* `x as i32` of a u32: the same 32 bits read as two's complement
AsI32(u) == IF u.hi = 0 THEN u.lo ELSE (u.lo - I32_MAX) - 1

\* `n as u32` of an i32: the same 32 bits read as unsigned
AsU32(n) == IF n >= 0 THEN U32(0, n) ELSE U32(1, (n + I32_MAX) + 1)

\* an i32 operation's outcome: the wrapped value, and whether the exact one fits
Val(v, o) == [val |-> v, ovf |-> o]

\* a + b on i32
AddI32(a, b) ==
    IF b >= 0 /\ a > I32_MAX - b
      THEN Val(((a - I32_MAX) - 1) + ((b - I32_MAX) - 1), TRUE)
    ELSE IF b < 0 /\ a < I32_MIN - b
      THEN Val(((a + I32_MAX) + 1) + ((b + I32_MAX) + 1), TRUE)
    ELSE Val(a + b, FALSE)

\* a - b on i32
SubI32(a, b) ==
    IF b = I32_MIN
      THEN (IF a >= 0 THEN Val((a - I32_MAX) - 1, TRUE)
                      ELSE Val((a + I32_MAX) + 1, FALSE))
      ELSE AddI32(a, -b)

\* the exact product a * b is not an i32
MulOverflows(a, b) ==
    IF a = 0 \/ b = 0 THEN FALSE
    ELSE IF a = I32_MIN THEN b # 1
    ELSE IF b = I32_MIN THEN a # 1
    ELSE IF (a > 0) = (b > 0) THEN Abs(a) > I32_MAX \div Abs(b)
    ELSE Abs(a) - 1 > (I32_MAX - (Abs(b) - 1)) \div Abs(b)

\* a * b modulo 2^32 as an i32, from the 16-bit halves a = a1 * 2^16 + a0 and
\* b = b1 * 2^16 + b0: the product's low half is that of a0 * b0, its high
\* half the sum modulo 2^16 of a1 * b0, a0 * b1 and the high half of a0 * b0
WrapMul(a, b) ==
    LET a0 == a % 65536
        a1 == a \div 65536
        b0 == b % 65536
        b1 == b \div 65536
        t  == (((a1 * b0) % 65536) + ((a0 * b1) % 65536)) % 65536
        u  == (a0 \div 256) * b0
        w  == ((u % 256) * 256) + ((a0 % 256) * b0)
        h  == (t + ((u \div 256) % 65536) + (w \div 65536)) % 65536
        l  == w % 65536
    IN  IF h >= 32768 THEN ((h - 65536) * 65536) + l ELSE (h * 65536) + l

\* a * b on i32
MulI32(a, b) == Val(WrapMul(a, b), MulOverflows(a, b))

\* a % m on i32, the remainder of the division rounding toward zero (m # 0)
RemI32(a, m) ==
    IF m = I32_MIN THEN (IF a = I32_MIN THEN 0 ELSE a)
    ELSE IF a >= 0 THEN a % Abs(m)
    ELSE LET r == a % Abs(m) IN IF r = 0 THEN 0 ELSE r - Abs(m)

\* i32::rem_euclid(a, m): `%` panics on a zero divisor and on I32_MIN % -1 in
\* every build; a negative remainder is raised by |m| (wrapping_abs)
rem_euclid(a, m) ==
    IF m = 0 \/ (a = I32_MIN /\ m = -1) THEN [val |-> 0, fail |-> TRUE]
    ELSE LET r == RemI32(a, m)
         IN  [val  |-> IF r >= 0 THEN r
                       ELSE IF m = I32_MIN THEN (r + I32_MAX) + 1
                       ELSE r + Abs(m),
              fail |-> FALSE]

\* exp /= 2 on u32
HalfU32(e) == U32(0, (e.hi * 1073741824) + (e.lo \div 2))

\* one turn of the loop of i32::pow on <<base, acc, exp, overflowed>>: the
\* multiplication for an odd exp, then exp /= 2 and the squaring of base
PowStep(st) ==
    LET odd == st.e.lo % 2 = 1
        m   == IF odd THEN MulI32(st.acc, st.base) ELSE Val(st.acc, FALSE)
        sq  == MulI32(st.base, st.base)
    IN  IF odd /\ st.e = U32(0, 1)
          THEN [base |-> st.base, acc |-> m.val, e |-> U32(0, 0),
                ovf |-> st.ovf \/ m.ovf]
          ELSE [base |-> sq.val, acc |-> m.val, e |-> HalfU32(st.e),
                ovf |-> st.ovf \/ m.ovf \/ sq.ovf]

\* the loop of i32::pow (exp # 0): square and multiply over the bits of exp
RECURSIVE PowLoop(_)
PowLoop(st) == IF st.e = U32(0, 0) THEN Val(st.acc, st.ovf) ELSE PowLoop(PowStep(st))

\* i32::pow(base, exp) with exp: u32
PowI32(base, e) ==
    IF e = U32(0, 0) THEN Val(1, FALSE)
    ELSE PowLoop([base |-> base, acc |-> 1, e |-> e, ovf |-> FALSE])

\* u - k on u32, for 0 <= k <= I32_MAX
SubU32(u, k) ==
    IF u.lo >= k THEN Val(U32(u.hi, u.lo - k), FALSE)
    ELSE Val(U32(1 - u.hi, ((I32_MAX - k) + 1) + u.lo), u.hi = 0)

(***************************************************************************)
(* FieldElement.                                                           *)
(***************************************************************************)
\* what a call yields: a value, or the panic that ended it
Ok(v) == [tag |-> "Ok", val |-> v]
Panic(t) == [tag |-> t]

\* Option<FieldElement>
None == <<>>
Some(v) == <<v>>

\* FieldElement::new: the fields as given, num is not reduced
FE_new(num, prime) == [num |-> num, prime |-> prime]

\* FieldElement::eq
FE_eq(s, o) ==
    IF o = None THEN FALSE
    ELSE s.num = o[1].num /\ s.prime = o[1].prime

\* the tail shared by the operations: an overflow panics in a build that
\* checks for it; otherwise num.rem_euclid(prime as i32) is the new num
Reduce(s, n) ==
    IF n.ovf /\ debug THEN Panic("Overflow")
    ELSE LET r == rem_euclid(n.val, AsI32(s.prime))
         IN  IF r.fail THEN Panic("Remainder") ELSE Ok(FE_new(r.val, s.prime))

\* FieldElement::add
FE_add(s, e) ==
    IF s.prime # e.prime THEN Panic("IncompatibleField")
    ELSE Reduce(s, AddI32(s.num, e.num))

\* FieldElement::sub
FE_sub(s, e) ==
    IF s.prime # e.prime THEN Panic("IncompatibleField")
    ELSE Reduce(s, SubI32(s.num, e.num))

\* a slip in mul: the fields are not compared
FE_mul_Unchecked(s, e) == Reduce(s, MulI32(s.num, e.num))

\* FieldElement::mul
FE_mul(s, e) ==
    IF s.prime # e.prime THEN Panic("IncompatibleField")
    ELSE Reduce(s, MulI32(s.num, e.num))

\* FieldElement::pow
FE_pow(s, x) ==
    LET m1 == SubI32(AsI32(s.prime), 1)
        n  == rem_euclid(x, m1.val)
    IN  IF m1.ovf /\ debug THEN Panic("Overflow")
        ELSE IF n.fail THEN Panic("Remainder")
        ELSE Reduce(s, PowI32(s.num, AsU32(n.val)))

\* FieldElement::truediv
FE_truediv(s, e) ==
    IF s.prime # e.prime THEN Panic("IncompatibleField")
    ELSE LET k  == SubU32(s.prime, 2)
             pw == PowI32(e.num, k.val)
             n  == MulI32(s.num, pw.val)
         IN  Reduce(s, Val(n.val, k.ovf \/ pw.ovf \/ n.ovf))

(***************************************************************************)
(* The field operations as steps.  The first call is made on an element    *)
(* built by new, with an argument built by new.  A later call is made on   *)
(* the element the call before it returned (a panic ends the run), with an *)
(* argument at hand: the zero of its field, or an operand of that call.    *)
(***************************************************************************)
\* the moduli: 2, the primes of the tests, the least prime whose square is
\* no i32, the greatest prime that is an i32, the greatest prime that is a u32
Primes == {U32(0, 2), U32(0, 13), U32(0, 31), U32(0, 46349),
           U32(0, I32_MAX), U32(1, I32_MAX - 4)}

\* the residues of the tests
TestNums == {3, 7, 12, 17, 24}

\* 0 <= n < p
InField(n, p) == n >= 0 /\ (p.hi = 1 \/ n < p.lo)

NumsFor(p) ==
    (-MaxNeg .. MaxNum) \cup TestNums
    \cup (IF p.hi = 0 THEN {p.lo - 1, p.lo} ELSE {I32_MAX - 1, I32_MAX})

ElemsOf(p) == {FE_new(n, p) : n \in NumsFor(p)}

Elems == UNION {ElemsOf(p) : p \in Primes}

Zero(p) == FE_new(0, p)

\* the element the last call returned
Returned == IF res.tag = "Ok" /\ op \notin {"new", "eq"} THEN {res.val} ELSE {}

\* the elements a call can be made on
Receivers == IF calls = 0 THEN {self} ELSE Returned

\* the arguments offered to receiver r: at first the elements of r's field
\* and, of every other field, the zero and the element with r's num
Args(r) ==
    IF calls = 0
      THEN ElemsOf(r.prime)
           \cup {FE_new(n, q) : n \in {0, r.num}, q \in Primes \ {r.prime}}
      ELSE {Zero(r.prime), self} \cup {elem[i] : i \in DOMAIN elem}

Exps(r) == (-MaxExp .. MaxExp) \cup {SubI32(AsI32(r.prime), 1).val}

Call(r, a, x, name, out) ==
    /\ calls < MaxCalls
    /\ self' = r
    /\ elem' = a
    /\ exp' = x
    /\ op' = name
    /\ res' = out
    /\ made' = (calls > 0)
    /\ calls' = calls + 1
    /\ UNCHANGED <<debug, pvars>>

Add == \E r \in Receivers : \E e \in Args(r) : Call(r, Some(e), 0, "add", FE_add(r, e))

Sub == \E r \in Receivers : \E e \in Args(r) : Call(r, Some(e), 0, "sub", FE_sub(r, e))

Mul == \E r \in Receivers : \E e \in Args(r) : Call(r, Some(e), 0, "mul", FE_mul(r, e))

Truediv ==
    \E r \in Receivers : \E e \in Args(r) :
        Call(r, Some(e), 0, "truediv", FE_truediv(r, e))

Pow == \E r \in Receivers : \E x \in Exps(r) : Call(r, None, x, "pow", FE_pow(r, x))

Eq ==
    \E r \in Receivers : \E o \in {None} \cup {Some(e) : e \in Args(r)} :
        Call(r, o, 0, "eq", Ok(FE_eq(r, o)))

(***************************************************************************)
(* Point<A, B>.                                                            *)
(***************************************************************************)
\* the const parameters of the point type
A == curve[1]
B == curve[2]

\* the variants of the enum
Point(x, y) == [kind |-> "Point", x |-> x, y |-> y]
Infinity == [kind |-> "Infinity"]

\* Result::Err
Err(e) == [tag |-> "Err", err |-> e]

\* BigInt `/`: the quotient rounded toward zero (b # 0)
TruncDiv(a, b) ==
    IF a = 0 THEN 0
    ELSE IF (a > 0) = (b > 0) THEN Abs(a) \div Abs(b)
    ELSE -(Abs(a) \div Abs(b))

\* a slip in the equation: the constant term is left out
new_point_NoB(x, y) ==
    IF y * y # x * x * x + A * x
      THEN Err("InvalidPoint")
      ELSE Ok(Point(x, y))

\* Point::new_point
new_point(x, y) ==
    IF y * y # x * x * x + A * x + B
      THEN Err("InvalidPoint")
      ELSE Ok(Point(x, y))

\* Point::new_infinity
new_infinity == Infinity

\* PartialEq::eq
point_eq(p, q) ==
    IF p.kind = "Point" /\ q.kind = "Point" THEN p.x = q.x /\ p.y = q.y
    ELSE p.kind = "Infinity" /\ q.kind = "Infinity"

\* Result::unwrap: the value, or the panic on an Err
unwrap(r) == IF r.tag = "Ok" THEN r ELSE Panic("UnwrapErr")

\* Add::add, the doubling case with y # 0: the tangent at p
point_double(p) ==
    LET numerator   == 3 * (p.x * p.x) + A
        denominator == 2 * p.y
        slope       == TruncDiv(numerator, denominator)
        x3          == slope * slope - 2 * p.x
        y3          == slope * (p.x - x3) - p.y
    IN  unwrap(new_point(x3, y3))

\* Add::add, the addition case x1 # x2: the chord through p and q
point_chord(p, q) ==
    LET slope == TruncDiv(q.y - p.y, q.x - p.x)
        x3    == slope * slope - p.x - q.x
        y3    == slope * (p.x - x3) - p.y
    IN  unwrap(new_point(x3, y3))

\* a slip in the case analysis: equal x is always taken for a doubling
point_finite_NoInverse(p, q) ==
    IF p.x = q.x
      THEN IF p.y = 0 THEN Ok(new_infinity) ELSE point_double(p)
      ELSE point_chord(p, q)

\* Add::add on two finite points
point_finite(p, q) ==
    IF p.x = q.x
      THEN IF p.y = q.y
             THEN IF p.y = 0 THEN Ok(new_infinity) ELSE point_double(p)
             ELSE Ok(new_infinity)
      ELSE point_chord(p, q)

\* a slip in the identity arms: the Infinity operand is returned, not the other
point_add_Absorbing(p, q) ==
    IF p.kind = "Infinity" THEN Ok(p)
    ELSE IF q.kind = "Infinity" THEN Ok(q)
    ELSE point_finite(p, q)

\* Add::add, the value returned or the panic of its unwrap
point_add(p, q) ==
    IF p.kind = "Infinity" THEN Ok(q)
    ELSE IF q.kind = "Infinity" THEN Ok(p)
    ELSE point_finite(p, q)

(***************************************************************************)
(* The point operations as steps: two operands are built (a new_point that *)
(* returns the error ends the run), then added; a sum can be an operand of *)
(* the next addition.                                                      *)
(***************************************************************************)
\* the curves: that of the tests, the singular one of the tests, two with
\* several integer points
Curves == {<<5, 7>>, <<0, 0>>, <<0, 1>>, <<-1, 0>>}

Coords == -MaxCoord .. MaxCoord

\* the next unbound operand takes the point built
Bind(p) ==
    /\ lhs = None \/ rhs = None
    /\ lhs' = IF lhs = None THEN Some(p) ELSE lhs
    /\ rhs' = IF lhs = None THEN rhs ELSE Some(p)

Running == pres.tag = "Ok"

NewPoint ==
    \E x \in Coords, y \in Coords :
        /\ Running
        /\ lhs = None \/ rhs = None
        /\ argx' = x
        /\ argy' = y
        /\ pop' = "new_point"
        /\ pres' = new_point(x, y)
        /\ IF new_point(x, y).tag = "Ok"
             THEN Bind(new_point(x, y).val)
             ELSE UNCHANGED <<lhs, rhs>>
        /\ UNCHANGED <<curve, fvars>>

NewInfinity ==
    /\ Running
    /\ Bind(new_infinity)
    /\ pop' = "new_infinity"
    /\ pres' = Ok(new_infinity)
    /\ UNCHANGED <<curve, argx, argy, fvars>>

\* the sum at hand
Sum ==
    IF pop = "add" /\ pres.tag = "Ok"
       /\ (pres.val.kind = "Point" =>
             Abs(pres.val.x) <= MaxFeed /\ Abs(pres.val.y) <= MaxFeed)
      THEN {pres.val}
      ELSE {}

PointAdd ==
    /\ Running
    /\ lhs # None /\ rhs # None
    /\ \E p \in {lhs[1]} \cup Sum, q \in {rhs[1]} \cup Sum :
        /\ lhs' = Some(p)
        /\ rhs' = Some(q)
        /\ pop' = "add"
        /\ pres' = point_add(p, q)
    /\ UNCHANGED <<curve, argx, argy, fvars>>

\* the variables of the other side stay as they start
FieldIdle ==
    /\ debug = FALSE
    /\ self = FE_new(0, U32(0, 2))
    /\ elem = None
    /\ exp = 0
    /\ op = "none"
    /\ res = Ok(self)
    /\ made = FALSE
    /\ calls = 0

PointIdle ==
    /\ curve = <<0, 0>>
    /\ lhs = None
    /\ rhs = None
    /\ argx = 0
    /\ argy = 0
    /\ pop = "none"
    /\ pres = Ok(Infinity)

InitField ==
    /\ debug \in BOOLEAN
    /\ self \in Elems
    /\ elem = None
    /\ exp = 0
    /\ op = "new"
    /\ res = Ok(self)
    /\ made = FALSE
    /\ calls = 0
    /\ PointIdle

NextField == Add \/ Sub \/ Mul \/ Truediv \/ Pow \/ Eq

SpecField == InitField /\ [][NextField]_vars

InitPoint ==
    /\ curve \in Curves
    /\ lhs = None
    /\ rhs = None
    /\ argx = 0
    /\ argy = 0
    /\ pop = "none"
    /\ pres = Ok(Infinity)
    /\ FieldIdle

NextPoint == NewPoint \/ NewInfinity \/ PointAdd

SpecPoint == InitPoint /\ [][NextPoint]_vars

(***************************************************************************)
(* Exact arithmetic modulo p, for 0 < p <= I32_MAX and residues in [0, p): *)
(* what the operations are to compute, on integers that never wrap.        *)
(***************************************************************************)
\* (x + y) mod p
AddMod(x, y, p) == IF x >= p - y THEN x - (p - y) ELSE x + y

\* one bit of the multiplier: st.acc + st.x * st.b is kept modulo p
MulModStep(st) ==
    [acc |-> IF st.b % 2 = 1 THEN AddMod(st.acc, st.x, st.p) ELSE st.acc,
     x   |-> AddMod(st.x, st.x, st.p),
     b   |-> st.b \div 2,
     p   |-> st.p]

RECURSIVE MulModLoop(_)
MulModLoop(st) == IF st.b = 0 THEN st.acc ELSE MulModLoop(MulModStep(st))

\* (x * y) mod p
MulMod(x, y, p) == MulModLoop([acc |-> 0, x |-> x % p, b |-> y, p |-> p])

\* one bit of the exponent: st.acc * st.base ^ st.n is kept modulo p
PowModStep(st) ==
    [acc  |-> IF st.n % 2 = 1 THEN MulMod(st.acc, st.base, st.p) ELSE st.acc,
     base |-> MulMod(st.base, st.base, st.p),
     n    |-> st.n \div 2,
     p    |-> st.p]

RECURSIVE PowModLoop(_)
PowModLoop(st) == IF st.n = 0 THEN st.acc ELSE PowModLoop(PowModStep(st))

\* (x ^ n) mod p, n >= 0
PowMod(x, n, p) == PowModLoop([acc |-> 1 % p, base |-> x % p, n |-> n, p |-> p])

(***************************************************************************)
(* The claims about FieldElement, checked under SpecField.                 *)
(***************************************************************************)
\* the last call was a binary operation on two reduced elements of one field
BinaryOnField ==
    /\ op \in {"add", "sub", "mul", "truediv"}
    /\ self.prime = elem[1].prime
    /\ InField(self.num, self.prime)
    /\ InField(elem[1].num, self.prime)

\* the last call returned a reduced element of the receiver's field
ReturnedInField ==
    /\ res.tag = "Ok"
    /\ res.val.prime = self.prime
    /\ InField(res.val.num, self.prime)

\* C2: on reduced elements of one field, each of add, sub, mul, truediv and
\* pow (any exponent) returns an element of that field with 0 <= num < prime.
C2_ClosureReduction ==
    (BinaryOnField \/ (op = "pow" /\ InField(self.num, self.prime)))
        => ReturnedInField

\* C2, as far as it goes: a call that returns, returns a reduced element;
\* and in a build without overflow checks every such call returns.
C2_ClosureWhenReturned ==
    (BinaryOnField \/ (op = "pow" /\ InField(self.num, self.prime)))
        => /\ res.tag = "Ok" => ReturnedInField
           /\ ~debug => res.tag = "Ok"

\* C3: mul on reduced elements returns the element whose num is the exact
\* product modulo the prime (stated for the primes that are an i32); the
\* product never wraps and never aborts the call.
C3_MulExact ==
    (BinaryOnField /\ op = "mul" /\ self.prime.hi = 0)
        => res = Ok(FE_new(MulMod(self.num, elem[1].num, self.prime.lo), self.prime))

\* C4: truediv by a non-zero element returns the unique r in [0, p) whose
\* exact product with the divisor is the dividend modulo p (stated for the
\* primes that are an i32); FieldElement(3,31) / FieldElement(24,31) is
\* FieldElement(4,31).
C4_DivIsInverse ==
    (BinaryOnField /\ op = "truediv" /\ elem[1].num # 0 /\ self.prime.hi = 0)
        => /\ ReturnedInField
           /\ MulMod(res.val.num, elem[1].num, self.prime.lo) = self.num

\* C5: pow on a reduced element returns the element whose num is the exact
\* num ^ (e mod (p - 1)) mod p, the exponent reduced into [0, p - 1) (stated
\* for the primes that are an i32).
C5_PowIsModExp ==
    (op = "pow" /\ InField(self.num, self.prime) /\ self.prime.hi = 0)
        => res = Ok(FE_new(PowMod(self.num, exp % (self.prime.lo - 1), self.prime.lo),
                           self.prime))

\* C5, the part the code keeps: a.pow(p - 1) is 1 for every non-zero reduced a.
C5_Fermat ==
    (op = "pow" /\ InField(self.num, self.prime) /\ self.num # 0
       /\ self.prime.hi = 0 /\ exp = self.prime.lo - 1)
        => res = Ok(FE_new(1, self.prime))

\* C9: add, sub, mul and truediv end in the incompatible-field panic exactly
\* when the primes differ; eq always returns, true exactly when the other
\* operand is present with the same num and the same prime.
C9_FieldMismatch ==
    /\ op \in {"add", "sub", "mul", "truediv"}
         => (res.tag = "IncompatibleField" <=> self.prime # elem[1].prime)
    /\ op = "eq"
         => /\ res.tag = "Ok"
            /\ res.val <=> (/\ elem # None
                            /\ elem[1].num = self.num
                            /\ elem[1].prime = self.prime)

\* C9's case: a division across two fields, the nums equal, ended in the panic
C9_Witness ==
    /\ op = "truediv"
    /\ self.prime # elem[1].prime
    /\ self.num = elem[1].num
    /\ res.tag = "IncompatibleField"

\* the last call added the zero of the receiver's field to the receiver
AddedZero == op = "add" /\ elem = Some(Zero(self.prime))

\* the sum returned is equal to the receiver under eq
SumIsSelf == res.tag = "Ok" /\ FE_eq(res.val, Some(self))

\* C10: a.add(FieldElement(0, p)) is equal to a under eq for every element a
\* of the field (0 <= num < p), built by new or returned by an operation.
C10_ZeroIdentity == (AddedZero /\ InField(self.num, self.prime)) => SumIsSelf

\* C10 read for every num given to new: new(num, p).add(FieldElement(0, p))
\* is equal to new(num, p) under eq.
C10_ZeroIdentityRaw == AddedZero => SumIsSelf

\* C10, the part the code keeps: the zero is the identity on every element
\* an operation returned, and on new(num, p) for 0 <= num < p <= i32::MAX.
C10_ZeroIdentityReduced ==
    (AddedZero /\ (made \/ (InField(self.num, self.prime) /\ self.prime.hi = 0)))
        => SumIsSelf

(***************************************************************************)
(* The claims about Point, checked under SpecPoint.                        *)
(***************************************************************************)
\* y^2 = x^3 + A*x + B
OnCurve(x, y) == y * y = x * x * x + A * x + B

\* Infinity, or a point of the curve
Valid(p) == p.kind = "Infinity" \/ OnCurve(p.x, p.y)

Added == pop = "add"

\* C1: the sum of two valid operands is returned (the unwrap never panics)
\* and is Infinity or a point of the curve.
C1_AddClosed ==
    (Added /\ Valid(lhs[1]) /\ Valid(rhs[1]))
        => pres.tag = "Ok" /\ Valid(pres.val)

\* C6: new_point(x, y) returns InvalidPoint exactly when y^2 # x^3 + A*x + B
\* and otherwise the point with the x and y supplied; new_infinity returns
\* Infinity.
C6_NewPointValidates ==
    /\ pop = "new_point"
         => /\ pres = Err("InvalidPoint") <=> ~OnCurve(argx, argy)
            /\ OnCurve(argx, argy) => pres = Ok(Point(argx, argy))
    /\ pop = "new_infinity" => pres = Ok(Infinity)

\* C6's case: new_point(-1, -1) on the curve of the tests succeeded
C6_Witness ==
    /\ pop = "new_point"
    /\ curve = <<5, 7>>
    /\ argx = -1 /\ argy = -1
    /\ pres.tag = "Ok"

\* C7: Infinity + P = P and P + Infinity = P, with P's coordinates.
C7_InfinityIdentity ==
    Added =>
        /\ lhs[1].kind = "Infinity"
             => pres = Ok(rhs[1]) /\ point_eq(pres.val, rhs[1])
        /\ rhs[1].kind = "Infinity"
             => pres = Ok(lhs[1]) /\ point_eq(pres.val, lhs[1])

\* C7's case: a finite point was added to Infinity
C7_Witness ==
    /\ Added
    /\ lhs[1].kind = "Infinity"
    /\ rhs[1].kind = "Point"
    /\ pres.tag = "Ok"

\* both operands are finite and have the same x
SameX == Added /\ lhs[1].kind = "Point" /\ rhs[1].kind = "Point" /\ lhs[1].x = rhs[1].x

\* C8: for operands of equal x, the sum is Infinity exactly when the y differ
\* or both are zero; for equal non-zero y it is not Infinity.
C8_VerticalLine ==
    SameX => (pres = Ok(Infinity)
                <=> (lhs[1].y # rhs[1].y \/ (lhs[1].y = 0 /\ rhs[1].y = 0)))

\* C8's case: a point and its inverse, y # 0, summed to Infinity
C8_Witness ==
    /\ SameX
    /\ lhs[1].y # 0
    /\ lhs[1].y = -rhs[1].y
    /\ pres = Ok(Infinity)

====
